---- MODULE Spec2Model ----
(***************************************************************************)
(* Model of the transcoder set-up of cmd/livepeer/livepeer.go              *)
(* (setupTranscoder): the job-event listener goroutine, the Claim Manager  *)
(* it creates per job and the Reward Manager loop it starts.               *)
(***************************************************************************)
EXTENDS Naturals, Integers, Sequences, FiniteSets, TLC

VARIABLES
    pending,      \* job events the subscription still has to send on logsCh
    handled,      \* events the listener goroutine has received, in order
    pc,           \* position of the listener goroutine
    l,            \* the log entry received from logsCh
    tx,           \* result of TransactionByHash
    strmId,       \* stream identifier parsed from the payload
    tData,        \* profile tag parsed from the payload
    jid,          \* JobID from GetInfoFromJobEvent
    strmIDs,      \* result of n.Transcode
    transcodeErr, \* n.Transcode returned an error
    requests,     \* TranscodeConfig values handed to n.Transcode
    cms,          \* Claim Managers created by core.NewClaimManager
    notifies,     \* calls of n.NotifyBroadcaster
    returns,      \* returns of n.Transcode: [ev, ok, strmIDs]
    errlog,       \* glog.Errorf reports of the listener: <<event id, kind>>
    crashed,      \* a goroutine panicked: the process is gone
    \* one job's Claim Manager
    cmState,      \* "Open", "Finalizing" or "Closed"
    cmBuf,        \* sequence numbers of the buffered receipts
    cmLast,       \* the last accepted sequence number, -1 before the first
    cmClaims,     \* the claims submitted, in order: [start, end, n, status, tries]
    cmAccepted,   \* the sequence numbers accepted, in order
    cmDelivered,  \* receipts delivered to the manager
    cmRejected,   \* receipts it rejected
    cmEarly,      \* buffer-full and interval submissions so far
    \* the Reward Manager loop
    rmNow,        \* seconds since rm.Start
    rmNextTick,   \* the time the ticker fires next
    rmTick,       \* the tick waiting in the ticker's channel, 0 when none
    rmPc,         \* "wait" for a tick, or "eval" in an evaluation
    rmEvalEnd,    \* the time the evaluation in progress ends
    rmCycle,      \* the cycle (tick index) of the last evaluation
    rmEvals,      \* evaluations started
    rmSlow,       \* some evaluation outlasted the interval
    rmOutcome,    \* outcome of the last evaluation
    \* the key material of getLPKeys
    kFile,        \* the content of keys.json in the data directory
    kLog,         \* the calls of getLPKeys so far, each with its result
    \* main
    mFlags,       \* the command line flags and the state of the data directory
    mpc,          \* the statement main is at
    mDone,        \* the startup steps main has performed, in order
    mFailed,      \* the steps that reported an error
    mNode,        \* n: "none" before it is created, then "ok", "partial" or "nil"
    mSub,         \* logsSub: "none", "live" or "nil"
    mSetupErr,    \* the error setupTranscoder returned: "none" before the call
    mDeferred,    \* the deferred calls of main
    mCancelled,   \* cancel() of the media server's context was called
    mExit         \* "running", or how the process ended

lvars == <<pending, handled, pc, l, tx, strmId, tData, jid, strmIDs,
           transcodeErr, requests, cms, notifies, returns, errlog, crashed>>

cmvars == <<cmState, cmBuf, cmLast, cmClaims, cmAccepted, cmDelivered,
            cmRejected, cmEarly>>

rmvars == <<rmNow, rmNextTick, rmTick, rmPc, rmEvalEnd, rmCycle, rmEvals,
            rmSlow, rmOutcome>>

kvars == <<kFile, kLog>>

mvars == <<mFlags, mpc, mDone, mFailed, mNode, mSub, mSetupErr, mDeferred,
           mCancelled, mExit>>

vars == <<lvars, cmvars, rmvars, kvars, mvars>>

\* What the actions of one component leave alone.
notL == <<cmvars, rmvars, kvars, mvars>>
notCM == <<lvars, rmvars, kvars, mvars>>
notRM == <<lvars, cmvars, kvars, mvars>>
notK == <<lvars, cmvars, rmvars, mvars>>
notM == <<lvars, cmvars, rmvars>>

----------------------------------------------------------------------------
(* Bounds and the small input sets *)

MaxEvents == 2
MaxSeq == 3         \* receipts carry sequence numbers 0..MaxSeq
MaxDeliver == 4     \* receipts delivered to one Claim Manager
MaxBuf == 3         \* the configured maximum size of the receipt buffer
MaxRetries == 1     \* the retry budget of one claim submission
MaxTime == 21       \* seconds the Reward Manager is observed
MaxCalls == 2       \* calls of getLPKeys

\* core.NewRewardManager(time.Second*5, n.Eth)
RewardInterval == 5
\* var EthRpcTimeout = 10 * time.Second: the longest a chain call may take
EthRpcTimeout == 10

Nodes == {"nodeA", "nodeB"}
SelfNode == "nodeT"

\* A StreamID is the origin node identity followed by a local suffix.
StreamIDs == {<<n, "vid">> : n \in Nodes}
EmptyStr == <<>>

KnownTags == {"P240p30fps16x9", "P360p30fps16x9"}
Tags == KnownTags \cup {"unknown"}
JobIDs == {1, 2}
NilJob == 0

\* types.VideoProfileLookup: the static catalog, tag -> VideoProfile
VideoProfileLookup ==
    [t \in KnownTags |->
        IF t = "P240p30fps16x9"
        THEN [Name |-> "P240p30fps16x9", Resolution |-> "426x240"]
        ELSE [Name |-> "P360p30fps16x9", Resolution |-> "640x360"]]

ZeroProfile == [Name |-> "", Resolution |-> ""]

\* What the chain holds for the transaction hash of an event.
GoodTx == [found : {TRUE}, wellformed : {TRUE}, strm : StreamIDs, tag : Tags]
MalformedTx == [found |-> TRUE, wellformed |-> FALSE, strm |-> EmptyStr, tag |-> ""]
MissingTx == [found |-> FALSE, wellformed |-> FALSE, strm |-> EmptyStr, tag |-> ""]
Txs == GoodTx \cup {MalformedTx, MissingTx}

NoEvent == [id |-> 0, tx |-> MissingTx, jid |-> NilJob]

----------------------------------------------------------------------------
(* Pure helpers *)

\* eth.ParseJobTxData: (stream identifier, profile tag, ok)
ParseJobTxData(t) ==
    IF t.wellformed
    THEN [strm |-> t.strm, tag |-> t.tag, ok |-> TRUE]
    ELSE [strm |-> EmptyStr, tag |-> "", ok |-> FALSE]

\* profile, ok := types.VideoProfileLookup[tData]
LookupOkAlways(tag) == TRUE
LookupOk(tag) == tag \in DOMAIN VideoProfileLookup

LookupProfile(tag) ==
    IF tag \in DOMAIN VideoProfileLookup THEN VideoProfileLookup[tag] ELSE ZeroProfile

\* core.StreamID.GetNodeID: the origin node identity of a stream identifier
GetNodeID(sid) == IF Len(sid) > 0 THEN sid[1] ELSE ""

\* The derived StreamID n.Transcode makes for a profile of a source stream
DerivedStreamID(sid, profile) == <<SelfNode, "out", profile.Name>>

\* The value n.Transcode returns: one derived StreamID per requested profile,
\* or the error alone
TranscodeResult(ok, sid, profile) ==
    IF ok THEN <<DerivedStreamID(sid, profile)>> ELSE <<>>

\* config := net.TranscodeConfig{...}
TranscodeConfig(s, p, j) ==
    [StrmID |-> s, Profiles |-> <<p>>, JobID |-> j, PerformOnchainClaim |-> TRUE]

\* The goroutine has a select without a surrounding loop: after one event
\* it returns.
AfterHandlerLoop == "select"
AfterHandler == "done"

\* strmIDs[0] panics on an empty result
IndexNeverPanics(s) == FALSE
IndexPanics(s) == Len(s) = 0

\* strmIDs[0] where it is evaluated
First(s) == IF Len(s) > 0 THEN s[1] ELSE EmptyStr

\* sid.GetNodeID() of the source stream is the node that is notified
NotifyTargetDerived(src, derived) == GetNodeID(derived)
NotifyTarget(src, derived) == GetNodeID(src)

----------------------------------------------------------------------------
(* The job-event listener *)

LInit ==
    /\ pending = <<>>
    /\ handled = <<>>
    /\ pc = "select"
    /\ l = NoEvent
    /\ tx = MissingTx
    /\ strmId = EmptyStr
    /\ tData = ""
    /\ jid = NilJob
    /\ strmIDs = <<>>
    /\ transcodeErr = FALSE
    /\ requests = <<>>
    /\ cms = <<>>
    /\ notifies = <<>>
    /\ returns = <<>>
    /\ errlog = {}
    /\ crashed = FALSE

\* The chain assigns a job to this node: the subscription has one more log
\* entry to send on logsCh.
JobEvent ==
    /\ Len(pending) + Len(handled) < MaxEvents
    /\ \E t \in Txs, j \in JobIDs :
         pending' = Append(pending,
             [id |-> Len(pending) + Len(handled) + 1, tx |-> t, jid |-> j])
    /\ UNCHANGED <<handled, pc, l, tx, strmId, tData, jid, strmIDs, transcodeErr,
                   requests, cms, notifies, returns, errlog, crashed>>
    /\ UNCHANGED notL

\* case l := <-logsCh
Recv ==
    /\ pc = "select" /\ ~crashed
    /\ pending # <<>>
    /\ l' = Head(pending)
    /\ pending' = Tail(pending)
    /\ handled' = Append(handled, Head(pending))
    /\ pc' = "getTx"
    /\ UNCHANGED <<tx, strmId, tData, jid, strmIDs, transcodeErr, requests, cms,
                   notifies, returns, errlog, crashed>>
    /\ UNCHANGED notL

\* tx, _, err := TransactionByHash(l.TxHash); an error is only logged
GetTx ==
    /\ pc = "getTx" /\ ~crashed
    /\ tx' = l.tx
    /\ errlog' = IF l.tx.found THEN errlog ELSE errlog \cup {<<l.id, "tx">>}
    /\ pc' = "parse"
    /\ UNCHANGED <<pending, handled, l, strmId, tData, jid, strmIDs, transcodeErr,
                   requests, cms, notifies, returns, crashed>>
    /\ UNCHANGED notL

\* strmId, tData, err := eth.ParseJobTxData(tx.Data()); tx.Data() on the nil
\* transaction of a failed lookup is a nil dereference
ParseTx ==
    /\ pc = "parse" /\ ~crashed
    /\ IF ~tx.found
       THEN /\ crashed' = TRUE
            /\ pc' = "panic"
            /\ UNCHANGED <<strmId, tData, errlog>>
       ELSE /\ strmId' = ParseJobTxData(tx).strm
            /\ tData' = ParseJobTxData(tx).tag
            /\ errlog' = IF ParseJobTxData(tx).ok THEN errlog
                         ELSE errlog \cup {<<l.id, "parse">>}
            /\ pc' = "jobInfo"
            /\ UNCHANGED crashed
    /\ UNCHANGED <<pending, handled, l, tx, jid, strmIDs, transcodeErr, requests,
                   cms, notifies, returns>>
    /\ UNCHANGED notL

\* jid, _, _, _, err := eth.GetInfoFromJobEvent(l, n.Eth); an error is only logged
JobInfo ==
    /\ pc = "jobInfo" /\ ~crashed
    /\ \E ok \in BOOLEAN :
         /\ jid' = IF ok THEN l.jid ELSE NilJob
         /\ errlog' = IF ok THEN errlog ELSE errlog \cup {<<l.id, "jobInfo">>}
    /\ pc' = "lookup"
    /\ UNCHANGED <<pending, handled, l, tx, strmId, tData, strmIDs, transcodeErr,
                   requests, cms, notifies, returns, crashed>>
    /\ UNCHANGED notL

\* profile, ok := types.VideoProfileLookup[tData]; if !ok { return ErrTranscode }
Lookup ==
    /\ pc = "lookup" /\ ~crashed
    /\ IF LookupOk(tData)
       THEN /\ pc' = "transcode"
            /\ UNCHANGED errlog
       ELSE /\ errlog' = errlog \cup {<<l.id, "profile">>}
            /\ pc' = AfterHandler
    /\ UNCHANGED <<pending, handled, l, tx, strmId, tData, jid, strmIDs,
                   transcodeErr, requests, cms, notifies, returns, crashed>>
    /\ UNCHANGED notL

\* cm := core.NewClaimManager(strmId, jid, tProfiles, n.Eth)
\* strmIDs, err := n.Transcode(config, cm)            (the call)
CallTranscode ==
    /\ pc = "transcode" /\ ~crashed
    /\ cms' = Append(cms, [ev |-> l.id, strmId |-> strmId, jid |-> jid,
                           profiles |-> <<LookupProfile(tData)>>])
    /\ requests' = Append(requests,
                     [ev |-> l.id,
                      config |-> TranscodeConfig(strmId, LookupProfile(tData), jid)])
    /\ pc' = "transcoding"
    /\ UNCHANGED <<pending, handled, l, tx, strmId, tData, jid, strmIDs,
                   transcodeErr, notifies, returns, errlog, crashed>>
    /\ UNCHANGED notL

\* n.Transcode returns: the derived StreamIDs, or an error that is only logged
TranscodeReturn ==
    /\ pc = "transcoding" /\ ~crashed
    /\ \E ok \in BOOLEAN :
         /\ strmIDs' = TranscodeResult(ok, strmId, LookupProfile(tData))
         /\ transcodeErr' = ~ok
         /\ returns' = Append(returns,
              [ev |-> l.id, ok |-> ok,
               strmIDs |-> TranscodeResult(ok, strmId, LookupProfile(tData))])
         /\ errlog' = IF ok THEN errlog ELSE errlog \cup {<<l.id, "transcode">>}
    /\ pc' = "notify"
    /\ UNCHANGED <<pending, handled, l, tx, strmId, tData, jid, requests, cms,
                   notifies, crashed>>
    /\ UNCHANGED notL

\* err = n.NotifyBroadcaster(sid.GetNodeID(), sid, map{strmIDs[0]: profile})
Notify ==
    /\ pc = "notify" /\ ~crashed
    /\ IF IndexPanics(strmIDs)
       THEN /\ crashed' = TRUE
            /\ pc' = "panic"
            /\ UNCHANGED <<notifies, returns, errlog>>
       ELSE /\ notifies' = Append(notifies,
                 [ev |-> l.id,
                  node |-> NotifyTarget(strmId, First(strmIDs)),
                  sid |-> strmId,
                  derived |-> First(strmIDs),
                  profile |-> LookupProfile(tData)])
            /\ \E ok \in BOOLEAN :
                 errlog' = IF ok THEN errlog ELSE errlog \cup {<<l.id, "notify">>}
            /\ pc' = AfterHandler
            /\ UNCHANGED crashed
    /\ UNCHANGED <<pending, handled, l, tx, strmId, tData, jid, strmIDs,
                   transcodeErr, requests, cms, returns>>
    /\ UNCHANGED notL


----------------------------------------------------------------------------
(* Properties of the job-event listener *)

\* The contexts of the listener are context.Background(): never cancelled,
\* and the select has no ctx.Done() case.
ListenerCtxDone == FALSE

\* The event of handled[i] has been handled to its end.
Finished(i) == i < Len(handled) \/ pc \in {"done", "select"}

KnownTagEvent(e) ==
    e.tx.found /\ e.tx.wellformed /\ e.tx.tag \in DOMAIN VideoProfileLookup
UnknownTagEvent(e) ==
    e.tx.found /\ e.tx.wellformed /\ e.tx.tag \notin DOMAIN VideoProfileLookup

RequestsOf(id) == {i \in DOMAIN requests : requests[i].ev = id}
CmsOf(id) == {i \in DOMAIN cms : cms[i].ev = id}
NotifiesOf(id) == {i \in DOMAIN notifies : notifies[i].ev = id}
ReturnsOf(id) == {i \in DOMAIN returns : returns[i].ev = id}

\* C1: the listener ingests continuously: it stops consuming job events
\* only when its context is cancelled (stated as: the listener goroutine has
\* returned only if its context is done).
C1_ListenerStopsOnlyOnCancel == (pc = "done") => ListenerCtxDone

\* C2: an event whose payload carries a profile tag that is not in the
\* catalog produces no TranscodeRequest, no Claim Manager and no notify call,
\* and once it is handled a profile error has been reported for it.
C2_UnknownTagEmitsNothing ==
    \A i \in DOMAIN handled :
        UnknownTagEvent(handled[i]) =>
            /\ RequestsOf(handled[i].id) = {}
            /\ CmsOf(handled[i].id) = {}
            /\ NotifiesOf(handled[i].id) = {}
            /\ Finished(i) => <<handled[i].id, "profile">> \in errlog

C2_Witness ==
    /\ pc = "done"
    /\ UnknownTagEvent(l)
    /\ <<l.id, "profile">> \in errlog
    /\ requests = <<>>

\* C3: once the listener has stopped, every delivered chain event with a
\* resolvable transaction and a known profile tag has exactly one
\* TranscodeRequest, carrying the stream identifier and profile of its
\* payload, the JobID of the event and the claim flag.
C3_ExactlyOneWellFormedRequest ==
    (pc = "done") =>
        \A e \in {handled[i] : i \in DOMAIN handled} \cup
                 {pending[i] : i \in DOMAIN pending} :
            KnownTagEvent(e) =>
                /\ Cardinality(RequestsOf(e.id)) = 1
                /\ \A i \in RequestsOf(e.id) :
                     requests[i].config =
                        [StrmID |-> e.tx.strm,
                         Profiles |-> <<VideoProfileLookup[e.tx.tag]>>,
                         JobID |-> e.jid,
                         PerformOnchainClaim |-> TRUE]

\* C4: at most one Transcode execution and at most one Claim Manager is ever
\* started per JobID, whatever events are delivered.
C4_AtMostOneTranscodePerJob ==
    \A j \in JobIDs \cup {NilJob} :
        /\ Cardinality({i \in DOMAIN requests : requests[i].config.JobID = j}) <= 1
        /\ Cardinality({i \in DOMAIN cms : cms[i].jid = j}) <= 1

C4_Witness ==
    /\ pc = "done"
    /\ Len(requests) = 1
    /\ pending # <<>>
    /\ Head(pending).jid = requests[1].config.JobID
    /\ KnownTagEvent(Head(pending))

\* C5: NotifyBroadcaster is never invoked for a job whose Transcode returned
\* an error.
C5_NoNotifyAfterTranscodeError ==
    \A i \in DOMAIN notifies :
        \A k \in ReturnsOf(notifies[i].ev) : returns[k].ok

C5_Witness ==
    /\ returns # <<>>
    /\ ~returns[Len(returns)].ok
    /\ pc = "panic"
    /\ notifies = <<>>

\* C6: a notify call is made only after Transcode has returned; once the
\* handler of an event whose Transcode succeeded has finished, exactly one
\* notify call was made for it, to the node identity of the source StreamID,
\* for the source stream, mapping the derived StreamID to its profile.
C6_NotifyOnceAfterTranscode ==
    /\ \A i \in DOMAIN notifies : ReturnsOf(notifies[i].ev) # {}
    /\ \A i \in DOMAIN handled :
         \A k \in ReturnsOf(handled[i].id) :
            (returns[k].ok /\ Finished(i)) =>
                /\ Cardinality(NotifiesOf(handled[i].id)) = 1
                /\ \A n \in NotifiesOf(handled[i].id) :
                     /\ notifies[n].node = handled[i].tx.strm[1]
                     /\ notifies[n].sid = handled[i].tx.strm
                     /\ notifies[n].derived = returns[k].strmIDs[1]
                     /\ notifies[n].profile = VideoProfileLookup[handled[i].tx.tag]

C6_Witness ==
    /\ pc = "done"
    /\ Len(notifies) = 1
    /\ returns # <<>>
    /\ returns[1].ok

\* C7: Transcode is never invoked for an event whose transaction lookup or
\* job-metadata resolution failed: every request carries a resolved JobID.
C7_NoTranscodeOnUnresolved ==
    \A i \in DOMAIN requests :
        /\ requests[i].config.JobID # NilJob
        /\ <<requests[i].ev, "jobInfo">> \notin errlog
        /\ <<requests[i].ev, "tx">> \notin errlog


----------------------------------------------------------------------------
(* One job's Claim Manager: Open -> Finalizing -> Closed *)

CMInit ==
    /\ cmState = "Open"
    /\ cmBuf = <<>>
    /\ cmLast = -1
    /\ cmClaims = <<>>
    /\ cmAccepted = <<>>
    /\ cmDelivered = 0
    /\ cmRejected = 0
    /\ cmEarly = 0

\* Receipts are accepted in strictly increasing sequence order.
AcceptsDuplicates(seq, last) == seq >= last
Accepts(seq, last) == seq > last

\* Receipts are accepted only while the manager is Open.
AcceptsInAnyState(state) == TRUE
AcceptsIn(state) == state = "Open"

\* The length of the leading run of consecutive sequence numbers of buf.
RECURSIVE RunLen(_)
RunLen(buf) ==
    IF Len(buf) <= 1 THEN Len(buf)
    ELSE IF buf[2] = buf[1] + 1 THEN 1 + RunLen(Tail(buf))
    ELSE 1

\* The claims a submission makes of the buffered receipts: one per run of
\* contiguous sequence numbers, in order.
RECURSIVE ClaimsOf(_)
ClaimsOf(buf) ==
    IF buf = <<>> THEN <<>>
    ELSE <<[start |-> buf[1], end |-> buf[RunLen(buf)], n |-> RunLen(buf),
            status |-> "submitting", tries |-> 0]>>
         \o ClaimsOf(SubSeq(buf, RunLen(buf) + 1, Len(buf)))

\* A submission trigger submits only when receipts are buffered: the claims
\* of an empty buffer are none.
Flush(buf) == ClaimsOf(buf)

\* The buffer has reached its configured maximum size.
BufferFull(buf) == Len(buf) >= MaxBuf

\* A receipt for sequence number seq is delivered.
CMReceipt ==
    /\ cmDelivered < MaxDeliver
    /\ \E seq \in 0..MaxSeq :
         IF AcceptsIn(cmState) /\ Accepts(seq, cmLast)
         THEN /\ cmLast' = seq
              /\ cmAccepted' = Append(cmAccepted, seq)
              /\ IF BufferFull(Append(cmBuf, seq))
                 THEN /\ cmClaims' = cmClaims \o Flush(Append(cmBuf, seq))
                      /\ cmBuf' = <<>>
                      /\ cmEarly' = cmEarly + 1
                 ELSE /\ cmBuf' = Append(cmBuf, seq)
                      /\ UNCHANGED <<cmClaims, cmEarly>>
              /\ UNCHANGED cmRejected
         ELSE /\ cmRejected' = cmRejected + 1
              /\ UNCHANGED <<cmLast, cmAccepted, cmBuf, cmClaims, cmEarly>>
    /\ cmDelivered' = cmDelivered + 1
    /\ UNCHANGED cmState
    /\ UNCHANGED notCM

\* The configured submission interval elapses.
CMInterval ==
    /\ cmState = "Open"
    /\ Flush(cmBuf) # <<>>
    /\ cmClaims' = cmClaims \o Flush(cmBuf)
    /\ cmBuf' = <<>>
    /\ cmEarly' = cmEarly + 1
    /\ UNCHANGED <<cmState, cmLast, cmAccepted, cmDelivered, cmRejected>>
    /\ UNCHANGED notCM

\* The explicit job-ended signal: flush what is buffered as the final claim.
CMJobEnded ==
    /\ cmState = "Open"
    /\ cmState' = "Finalizing"
    /\ cmClaims' = cmClaims \o Flush(cmBuf)
    /\ cmBuf' = <<>>
    /\ UNCHANGED <<cmLast, cmAccepted, cmDelivered, cmRejected, cmEarly>>
    /\ UNCHANGED notCM

\* After the final flush the manager is closed.
CMClose ==
    /\ cmState = "Finalizing"
    /\ cmState' = "Closed"
    /\ UNCHANGED <<cmBuf, cmLast, cmClaims, cmAccepted, cmDelivered, cmRejected,
                   cmEarly>>
    /\ UNCHANGED notCM

\* The chain answers the submission of claim i: accepted, or a transient
\* failure that is retried until the retry budget is spent.
CMSubmitResult ==
    /\ \E i \in DOMAIN cmClaims, ok \in BOOLEAN :
           /\ cmClaims[i].status = "submitting"
           /\ cmClaims' = [cmClaims EXCEPT ![i] =
                 IF ok THEN [@ EXCEPT !.status = "submitted"]
                 ELSE IF @.tries >= MaxRetries THEN [@ EXCEPT !.status = "failed"]
                 ELSE [@ EXCEPT !.tries = @ + 1]]
           /\ UNCHANGED <<cmState, cmBuf, cmLast, cmAccepted, cmDelivered, cmRejected,
                          cmEarly>>
    /\ UNCHANGED notCM



----------------------------------------------------------------------------
(* Properties of the Claim Manager *)

\* The receipts accepted so far are 0..n, in order.
AcceptedInOrder == cmAccepted = [i \in 1..Len(cmAccepted) |-> i - 1]

\* C8: the submitted claims cover pairwise non-overlapping, strictly
\* increasing sequence ranges, and no claim has zero receipts.
C8_ClaimsIncreasingNonEmpty ==
    \A i \in DOMAIN cmClaims :
        /\ cmClaims[i].n >= 1
        /\ cmClaims[i].start <= cmClaims[i].end
        /\ cmClaims[i].n = cmClaims[i].end - cmClaims[i].start + 1
        /\ \A j \in DOMAIN cmClaims : i < j => cmClaims[i].end < cmClaims[j].start

C8_Witness ==
    /\ Len(cmClaims) >= 2
    /\ cmEarly >= 1
    /\ cmRejected >= 1
    /\ cmState = "Closed"

\* C9 as stated: after receipts 0..n in order and the job-ended signal the
\* manager has submitted exactly one claim, covering [0,n].
C9_ExactlyOneClaim ==
    (cmState = "Closed" /\ cmAccepted # <<>> /\ AcceptedInOrder) =>
        /\ Len(cmClaims) = 1
        /\ cmClaims[1].start = 0
        /\ cmClaims[1].end = Len(cmAccepted) - 1

C9_Covered ==
    (cmState \in {"Finalizing", "Closed"} /\ cmAccepted # <<>> /\ AcceptedInOrder) =>
        /\ cmClaims # <<>>
        /\ cmClaims[1].start = 0
        /\ cmClaims[Len(cmClaims)].end = Len(cmAccepted) - 1
        /\ \A i \in 1..(Len(cmClaims) - 1) :
             cmClaims[i + 1].start = cmClaims[i].end + 1
        /\ cmEarly = 0 => Len(cmClaims) = 1

C9_Step ==
    /\ cmState' # cmState =>
         <<cmState, cmState'>> \in {<<"Open", "Finalizing">>, <<"Finalizing", "Closed">>}
    /\ (cmState = "Closed" /\ cmDelivered' # cmDelivered) =>
         /\ cmRejected' = cmRejected + 1
         /\ UNCHANGED <<cmState, cmBuf, cmLast, cmClaims, cmAccepted, cmEarly>>

\* C9 (amended): the manager moves only Open -> Finalizing -> Closed; after
\* receipts 0..n in order and the job-ended signal its claims are adjacent
\* and together cover exactly [0,n], a single claim [0,n] when no buffer-full
\* or interval submission came before the signal; a receipt delivered after
\* Closed is rejected and changes no state.
C9_LifecycleAndFinalClaim == []C9_Covered /\ [][C9_Step]_vars

C9_Witness ==
    /\ cmState = "Closed"
    /\ cmAccepted = <<0, 1>>
    /\ cmEarly = 0
    /\ Len(cmClaims) = 1
    /\ cmClaims[1].start = 0 /\ cmClaims[1].end = 1
    /\ cmRejected >= 1
    /\ cmDelivered = 3

----------------------------------------------------------------------------
(* The Reward Manager: a ticker loop started once by setupTranscoder *)

RMInit ==
    /\ rmNow = 0
    /\ rmNextTick = RewardInterval
    /\ rmTick = 0
    /\ rmPc = "wait"
    /\ rmEvalEnd = 0
    /\ rmCycle = 0
    /\ rmEvals = 0
    /\ rmSlow = FALSE
    /\ rmOutcome = "none"

Outcomes == {"ineligible", "rewarded", "alreadyRewarded", "failed"}

\* The loop starts an evaluation only on a tick of its ticker.
TickAlwaysReady(tick) == TRUE
TickReady(tick) == tick > 0

\* Whatever the outcome of an evaluation, the loop goes back to wait for the
\* next tick.
AfterEvalStopOnFailure(o) == IF o = "failed" THEN "stopped" ELSE "wait"
AfterEval(o) == "wait"

\* rm.Start(context.Background()): the controlling context is never cancelled.
RewardCtxDone == FALSE

\* The ticker fires every interval; its channel holds one tick, and a tick
\* that finds the channel full is dropped.
RMTickFire ==
    /\ rmNow = rmNextTick
    /\ rmTick' = IF rmTick = 0 THEN rmNextTick \div RewardInterval ELSE rmTick
    /\ rmNextTick' = rmNextTick + RewardInterval
    /\ UNCHANGED <<rmNow, rmPc, rmEvalEnd, rmCycle, rmEvals, rmSlow, rmOutcome>>
    /\ UNCHANGED notRM

\* The loop takes a tick and starts the evaluation of its cycle: the
\* eligibility query, the stake query and the reward call, each a chain
\* call that ends within the RPC timeout.
RMStartEval ==
    /\ rmPc = "wait"
    /\ TickReady(rmTick)
    /\ rmEvals < MaxTime
    /\ rmPc' = "eval"
    /\ rmCycle' = rmTick
    /\ rmTick' = 0
    /\ rmEvals' = rmEvals + 1
    /\ \E d \in 0..EthRpcTimeout :
         /\ rmEvalEnd' = rmNow + d
         /\ rmSlow' = (rmSlow \/ d > RewardInterval)
    /\ UNCHANGED <<rmNow, rmNextTick, rmOutcome>>
    /\ UNCHANGED notRM

\* The evaluation ends; whatever its outcome the loop waits for the next tick.
RMEndEval ==
    /\ rmPc = "eval"
    /\ rmNow = rmEvalEnd
    /\ \E o \in Outcomes :
         /\ rmOutcome' = o
         /\ rmPc' = AfterEval(o)
    /\ UNCHANGED <<rmNow, rmNextTick, rmTick, rmEvalEnd, rmCycle, rmEvals, rmSlow>>
    /\ UNCHANGED notRM

\* Something is due at the current instant.
RMUrgent ==
    \/ rmNow = rmNextTick
    \/ rmPc = "wait" /\ TickReady(rmTick)
    \/ rmPc = "eval" /\ rmNow = rmEvalEnd

\* A second passes.
RMAdvance ==
    /\ ~RMUrgent
    /\ rmNow < MaxTime
    /\ rmNow' = rmNow + 1
    /\ UNCHANGED <<rmNextTick, rmTick, rmPc, rmEvalEnd, rmCycle, rmEvals, rmSlow,
                   rmOutcome>>
    /\ UNCHANGED notRM

----------------------------------------------------------------------------
(* Properties of the Reward Manager *)

Floor(d, i) == d \div i
Ceil(d, i) == (d + i - 1) \div i

\* C10 as stated: observed for a duration D, the number of evaluations is
\* between floor(D/I) and ceil(D/I)+1.
C10_EvaluationCount ==
    ~RMUrgent =>
        /\ rmEvals >= Floor(rmNow, RewardInterval)
        /\ rmEvals <= Ceil(rmNow, RewardInterval) + 1

C10_Count ==
    /\ rmEvals <= Floor(rmNow, RewardInterval)
    /\ rmEvals <= Ceil(rmNow, RewardInterval) + 1
    /\ (~RMUrgent /\ ~rmSlow) => rmEvals >= Floor(rmNow, RewardInterval)

C10_Step ==
    rmEvals' # rmEvals =>
        /\ rmPc = "wait"
        /\ rmCycle' > rmCycle

\* C10 (amended): the Reward Manager starts at most one evaluation per tick,
\* never two at once and never two of the same cycle, so
\* over a duration D it makes at most ceil(D/I)+1 evaluations; it makes at
\* least floor(D/I) when no evaluation outlasts the interval.
C10_AtMostOncePerInterval == []C10_Count /\ [][C10_Step]_vars

C10_Witness ==
    /\ rmNow = 12
    /\ ~RMUrgent
    /\ ~rmSlow
    /\ rmEvals = 2
    /\ rmCycle = 2

C11_Running ==
    /\ rmPc \notin {"wait", "eval"} => RewardCtxDone
    /\ rmNextTick >= rmNow
    /\ rmNextTick - rmNow <= RewardInterval

C11_EvalStep ==
    (rmPc = "eval" /\ rmPc' # "eval") =>
        /\ rmOutcome' \in Outcomes
        /\ rmPc' = "wait"
        /\ rmNextTick' = rmNextTick

\* C11: the reward loop stops only when its controlling context is
\* cancelled: an evaluation that finds the node ineligible, whose reward call
\* fails because the cycle was already rewarded, or that fails otherwise
\* leaves the loop waiting for the next tick, and the ticker stays armed.
C11_LoopStopsOnlyOnCancel == []C11_Running /\ [][C11_EvalStep]_vars

C11_Witness ==
    /\ rmOutcome = "failed"
    /\ rmPc = "eval"
    /\ rmEvals = 2
    /\ rmCycle = 2

----------------------------------------------------------------------------
(* getLPKeys: the key pair persisted in <datadir>/keys.json *)

\* crypto.GenerateKeyPair yields one of these key pairs; NoKey is its failure.
KeyIds == {1, 2}
NoKey == 0

PrivKey(k) == [t |-> "priv", k |-> k]
PubKey(k) == [t |-> "pub", k |-> k]
NilKey == [t |-> "nil", k |-> NoKey]

\* datadir: the empty string, or a directory
NoDir == ""
Dirs == {NoDir, "data"}

\* priv.Bytes() / pub.Bytes(): the marshalled key
KeyBytes(key) == <<"pb", key.t, key.k>>
GarbageBytes == <<"xx", "xx", NoKey>>

\* crypto.ConfigEncodeKey / crypto.ConfigDecodeKey: base64 of the bytes
ConfigEncodeKey(b) == <<"b64">> \o b
ConfigDecodeKey(str) ==
    IF str = <<>> THEN [ok |-> TRUE, bytes |-> <<>>]
    ELSE IF str[1] = "b64" THEN [ok |-> TRUE, bytes |-> Tail(str)]
    ELSE [ok |-> FALSE, bytes |-> <<>>]
BadBase64 == <<"!!", "xx", "xx", NoKey>>

\* crypto.UnmarshalPrivateKey / crypto.UnmarshalPublicKey
UnmarshalKey(b, t) ==
    IF Len(b) = Len(GarbageBytes) /\ b[1] = "pb" /\ b[2] = t /\ b[3] \in KeyIds
    THEN [ok |-> TRUE, key |-> [t |-> t, k |-> b[3]]]
    ELSE [ok |-> FALSE, key |-> NilKey]
UnmarshalPrivateKey(b) == UnmarshalKey(b, "priv")
UnmarshalPublicKey(b) == UnmarshalKey(b, "pub")

\* kf := LPKeyFile{Priv: ConfigEncodeKey(privb), Pub: ConfigEncodeKey(pubb)}
\* and json.Marshal(kf)
KeyFileSwapped(priv, pub) ==
    [kind |-> "json", Priv |-> ConfigEncodeKey(KeyBytes(pub)),
                      Pub |-> ConfigEncodeKey(KeyBytes(priv))]
KeyFileOf(priv, pub) ==
    [kind |-> "json", Priv |-> ConfigEncodeKey(KeyBytes(priv)),
                      Pub |-> ConfigEncodeKey(KeyBytes(pub))]

\* What keys.json may hold: nothing, something unreadable, something that is
\* not JSON, or a JSON record with two string fields.
FieldStrings ==
    {<<>>, BadBase64, ConfigEncodeKey(GarbageBytes)}
    \cup {ConfigEncodeKey(KeyBytes(PrivKey(k))) : k \in KeyIds}
    \cup {ConfigEncodeKey(KeyBytes(PubKey(k))) : k \in KeyIds}
AbsentFile == [kind |-> "absent", Priv |-> <<>>, Pub |-> <<>>]
UnreadableFile == [kind |-> "unreadable", Priv |-> <<>>, Pub |-> <<>>]
GarbageFile == [kind |-> "garbage", Priv |-> <<>>, Pub |-> <<>>]
FileContents ==
    {AbsentFile, UnreadableFile, GarbageFile}
    \cup [kind : {"json"}, Priv : FieldStrings, Pub : FieldStrings]

\* ioutil.ReadFile succeeds; json.Unmarshal succeeds
Readable(f) == f.kind \notin {"absent", "unreadable"}
JsonOk(f) == f.kind = "json"

\* Lines 221-262: every failed step sets gen and skips the later ones.
LoadKeys(datadir, f) ==
    IF datadir = NoDir
    THEN [gen |-> FALSE, priv |-> NilKey, pub |-> NilKey, read |-> FALSE]
    ELSE LET e1 == ~Readable(f)
             e2 == e1 \/ ~JsonOk(f)
             dp == ConfigDecodeKey(IF e2 THEN <<>> ELSE f.Priv)
             e3 == e2 \/ ~dp.ok
             dq == ConfigDecodeKey(IF e3 THEN <<>> ELSE f.Pub)
             e4 == e3 \/ ~dq.ok
             up == UnmarshalPrivateKey(IF e4 THEN <<>> ELSE dp.bytes)
             e5 == e4 \/ ~up.ok
             uq == UnmarshalPublicKey(IF e5 THEN <<>> ELSE dq.bytes)
             e6 == e5 \/ ~uq.ok
         IN  [gen |-> e6,
              priv |-> IF e5 THEN NilKey ELSE up.key,
              pub |-> IF e6 THEN NilKey ELSE uq.key,
              read |-> TRUE]

\* if datadir != "" { ... ioutil.WriteFile(...) }
NeverWrites(datadir) == FALSE
AlwaysWrites(datadir) == TRUE
ShouldWrite(datadir) == datadir # NoDir

\* getLPKeys(datadir) on file content f, when GenerateKeyPair would yield g
\* and WriteFile would succeed or not
GetLPKeys(datadir, f, g, writeOk) ==
    LET ld == LoadKeys(datadir, f)
    IN  IF ld.gen \/ ld.pub = NilKey \/ ld.priv = NilKey
        THEN IF g = NoKey
             THEN [priv |-> NilKey, pub |-> NilKey, err |-> "ErrKeygen",
                   generated |-> FALSE, read |-> ld.read, wrote |-> FALSE,
                   written |-> FALSE, after |-> f]
             ELSE [priv |-> PrivKey(g), pub |-> PubKey(g), err |-> "nil",
                   generated |-> TRUE, read |-> ld.read,
                   wrote |-> ShouldWrite(datadir),
                   written |-> ShouldWrite(datadir) /\ writeOk,
                   after |-> IF ShouldWrite(datadir) /\ writeOk
                             THEN KeyFileOf(PrivKey(g), PubKey(g)) ELSE f]
        ELSE [priv |-> ld.priv, pub |-> ld.pub, err |-> "nil",
              generated |-> FALSE, read |-> ld.read, wrote |-> FALSE,
              written |-> FALSE, after |-> f]

KInit ==
    /\ kFile = AbsentFile
    /\ kLog = <<>>

\* keys.json holds anything when the node starts.
KInitAny ==
    /\ kFile \in FileContents
    /\ kLog = <<>>

\* One call of getLPKeys
KCall ==
    /\ Len(kLog) < MaxCalls
    /\ \E d \in Dirs, g \in KeyIds \cup {NoKey}, w \in BOOLEAN :
         LET r == GetLPKeys(d, kFile, g, w)
         IN  /\ kFile' = r.after
             /\ kLog' = Append(kLog,
                  [dir |-> d, before |-> kFile, g |-> g, res |-> r])
    /\ UNCHANGED notK

----------------------------------------------------------------------------
(* Properties of getLPKeys *)

ValidPrivStrings == {ConfigEncodeKey(KeyBytes(PrivKey(k))) : k \in KeyIds}
ValidPubStrings == {ConfigEncodeKey(KeyBytes(PubKey(k))) : k \in KeyIds}

\* keys.json is missing, unreadable or does not hold a decodable key pair.
Corrupt(f) ==
    \/ f.kind # "json"
    \/ f.Priv \notin ValidPrivStrings
    \/ f.Pub \notin ValidPubStrings

\* The key pair a decodable keys.json holds.
PrivIn(f) == PrivKey(CHOOSE k \in KeyIds : f.Priv = <<"b64", "pb", "priv", k>>)
PubIn(f) == PubKey(CHOOSE k \in KeyIds : f.Pub = <<"b64", "pb", "pub", k>>)

\* C12: when a call of getLPKeys generates a key pair and persists it to
\* keys.json, every later call on the same data directory returns the same
\* private and public key, with a nil error, and generates nothing.
C12_KeyRoundTrip ==
    \A i \in DOMAIN kLog : \A j \in DOMAIN kLog :
        (/\ i < j
         /\ kLog[i].dir # NoDir
         /\ kLog[j].dir = kLog[i].dir
         /\ kLog[i].res.generated
         /\ kLog[i].res.written) =>
            /\ kLog[j].res.priv = kLog[i].res.priv
            /\ kLog[j].res.pub = kLog[i].res.pub
            /\ kLog[j].res.err = "nil"
            /\ ~kLog[j].res.generated

C12_Witness ==
    /\ Len(kLog) = 2
    /\ kLog[1].dir # NoDir /\ kLog[2].dir = kLog[1].dir
    /\ kLog[1].res.generated /\ kLog[1].res.written
    /\ kLog[2].res.priv = kLog[1].res.priv
    /\ kLog[2].g # kLog[1].g
    /\ kLog[2].g # NoKey

C19_WritesOnlyWhenGenerating ==
    \A i \in DOMAIN kLog :
        /\ kLog[i].res.wrote => kLog[i].res.generated
        /\ kLog[i].res.after # kLog[i].before => kLog[i].res.generated
        /\ (kLog[i].dir # NoDir /\ ~Corrupt(kLog[i].before)) =>
              /\ kLog[i].res.priv = PrivIn(kLog[i].before)
              /\ kLog[i].res.pub = PubIn(kLog[i].before)
              /\ kLog[i].res.err = "nil"
              /\ ~kLog[i].res.generated
              /\ ~kLog[i].res.wrote
              /\ kLog[i].res.after = kLog[i].before
        /\ kLog[i].dir = NoDir =>
              /\ ~kLog[i].res.read
              /\ ~kLog[i].res.wrote
              /\ kLog[i].res.after = kLog[i].before

C19_Witness ==
    /\ Len(kLog) = 2
    /\ kLog[1].dir # NoDir /\ ~Corrupt(kLog[1].before)
    /\ kLog[1].res.priv.k # kLog[1].res.pub.k
    /\ kLog[1].g # NoKey
    /\ kLog[2].dir = NoDir /\ kLog[2].res.generated
    /\ kFile = kLog[1].before

----------------------------------------------------------------------------
(* main: the startup sequence of the node *)

\* The flags main reads, with the state of the data directory on disk.
FlagSets ==
    [port : {0, 15000}, http : {"", "8935"}, rtmp : {"", "1935"},
     dir : {"ok", "missing", "unreadable"},
     bootnode : BOOLEAN, transcoder : BOOLEAN, newEthAccount : BOOLEAN,
     gethipc : {"", "geth.ipc"}]

DefaultFlags ==
    [port |-> 15000, http |-> "8935", rtmp |-> "1935", dir |-> "ok",
     bootnode |-> FALSE, transcoder |-> FALSE, newEthAccount |-> FALSE,
     gethipc |-> ""]

\* keys.json in a data directory of the given state
KeyFilesIn(dir) ==
    IF dir = "unreadable" THEN {UnreadableFile}
    ELSE IF dir = "missing" THEN {AbsentFile}
    ELSE {AbsentFile, GarbageFile, KeyFileOf(PrivKey(1), PubKey(1))}

MInitRest ==
    /\ mpc = "flags"
    /\ mDone = <<>>
    /\ mFailed = {}
    /\ mNode = "none"
    /\ mSub = "none"
    /\ mSetupErr = "none"
    /\ mDeferred = <<>>
    /\ mCancelled = FALSE
    /\ mExit = "running"

MInit ==
    /\ mFlags = DefaultFlags
    /\ MInitRest

MInitAny ==
    /\ mFlags \in FlagSets
    /\ MInitRest

Alive == mExit = "running"

Did(step) == \E i \in DOMAIN mDone : mDone[i] = step
Count(step) == Cardinality({i \in DOMAIN mDone : mDone[i] = step})

\* A step of main that succeeds and goes on, or reports an error and returns
\* (nothing is deferred before the media server is set up but Unsubscribe,
\* and no return lies between that defer and the media server).
StepOrReturn(step, next) ==
    /\ mDone' = Append(mDone, step)
    /\ \/ /\ mpc' = next
          /\ UNCHANGED <<mFailed, mExit>>
       \/ /\ mpc' = "exit"
          /\ mFailed' = mFailed \cup {step}
          /\ mExit' = "returned"

\* if *port == 0 / *httpPort == "" / *rtmpPort == "": glog.Fatalf
MissingPort(f) == f.port = 0 \/ f.http = "" \/ f.rtmp = ""

MCheckFlags ==
    /\ Alive /\ mpc = "flags"
    /\ IF MissingPort(mFlags)
       THEN mpc' = "exit" /\ mExit' = "fatal"
       ELSE mpc' = "datadir" /\ mExit' = mExit
    /\ UNCHANGED <<mFlags, mDone, mFailed, mNode, mSub, mSetupErr, mDeferred,
                   mCancelled>>
    /\ UNCHANGED kvars
    /\ UNCHANGED notM

\* os.Stat(*datadir); os.Mkdir when it does not exist, its error dropped
MDataDir ==
    /\ Alive /\ mpc = "datadir"
    /\ mDone' = Append(mDone, "datadir")
    /\ IF mFlags.dir = "missing"
       THEN \E d \in {"ok", "missing"} : mFlags' = [mFlags EXCEPT !.dir = d]
       ELSE mFlags' = mFlags
    /\ mpc' = "keys"
    /\ UNCHANGED <<mFailed, mNode, mSub, mSetupErr, mDeferred, mCancelled, mExit>>
    /\ UNCHANGED kvars
    /\ UNCHANGED notM

\* priv, pub, err := getLPKeys(*datadir); an error returns
MGetKeys ==
    /\ Alive /\ mpc = "keys"
    /\ mDone' = Append(mDone, "keys")
    /\ \E g \in KeyIds \cup {NoKey}, w \in BOOLEAN :
         LET r == GetLPKeys("data", kFile, g, w /\ mFlags.dir = "ok")
         IN  /\ kFile' = r.after
             /\ kLog' = Append(kLog,
                  [dir |-> "data", before |-> kFile, g |-> g, res |-> r])
             /\ IF r.err = "nil"
                THEN mpc' = "newNode" /\ UNCHANGED <<mFailed, mExit>>
                ELSE /\ mpc' = "exit"
                     /\ mFailed' = mFailed \cup {"keys"}
                     /\ mExit' = "returned"
    /\ UNCHANGED <<mFlags, mNode, mSub, mSetupErr, mDeferred, mCancelled>>
    /\ UNCHANGED notM

\* node, err := bnet.NewNode(*port, priv, pub)
MNewNode ==
    /\ Alive /\ mpc = "newNode"
    /\ StepOrReturn("newNode", "newNetwork")
    /\ UNCHANGED <<mFlags, mNode, mSub, mSetupErr, mDeferred, mCancelled>>
    /\ UNCHANGED kvars
    /\ UNCHANGED notM

\* nw, err := bnet.NewBasicVideoNetwork(node)
MNewNetwork ==
    /\ Alive /\ mpc = "newNetwork"
    /\ StepOrReturn("newNetwork", "lpNode")
    /\ UNCHANGED <<mFlags, mNode, mSub, mSetupErr, mDeferred, mCancelled>>
    /\ UNCHANGED kvars
    /\ UNCHANGED notM

\* n, err := core.NewLivepeerNode(nil, nw): an error is logged and main goes
\* on with whatever n is then, nil or a node that is not fully set up
MNewLivepeerNode ==
    /\ Alive /\ mpc = "lpNode"
    /\ mDone' = Append(mDone, "lpNode")
    /\ \/ /\ mNode' = "ok"
          /\ mFailed' = mFailed
       \/ /\ mNode' \in {"nil", "partial"}
          /\ mFailed' = mFailed \cup {"lpNode"}
    /\ mpc' = "bootstrap"
    /\ UNCHANGED <<mFlags, mSub, mSetupErr, mDeferred, mCancelled, mExit>>
    /\ UNCHANGED kvars
    /\ UNCHANGED notM

\* n.VideoNetwork.SetupProtocol() on a bootnode, n.Start(bootID, bootAddr)
\* otherwise; on a nil n the call dereferences nil and panics
MBootstrap ==
    /\ Alive /\ mpc = "bootstrap"
    /\ IF mNode = "nil"
       THEN /\ mDone' = Append(mDone, "bootstrap")
            /\ mpc' = "exit"
            /\ mExit' = "panic"
            /\ mFailed' = mFailed
       ELSE StepOrReturn("bootstrap", "chain")
    /\ UNCHANGED <<mFlags, mNode, mSub, mSetupErr, mDeferred, mCancelled>>
    /\ UNCHANGED kvars
    /\ UNCHANGED notM

\* if *gethipc != "" { ... } else { off-chain mode }
MChainMode ==
    /\ Alive /\ mpc = "chain"
    /\ mpc' = IF mFlags.gethipc # "" THEN "account" ELSE "media"
    /\ UNCHANGED <<mFlags, mDone, mFailed, mNode, mSub, mSetupErr, mDeferred,
                   mCancelled, mExit>>
    /\ UNCHANGED kvars
    /\ UNCHANGED notM

\* keyStore.NewAccount(*ethPassword) or getEthAccount(*datadir)
MAccount ==
    /\ Alive /\ mpc = "account"
    /\ StepOrReturn("account", "dial")
    /\ UNCHANGED <<mFlags, mNode, mSub, mSetupErr, mDeferred, mCancelled>>
    /\ UNCHANGED kvars
    /\ UNCHANGED notM

\* backend, err = ethclient.Dial(*gethipc)
MDial ==
    /\ Alive /\ mpc = "dial"
    /\ StepOrReturn("dial", "client")
    /\ UNCHANGED <<mFlags, mNode, mSub, mSetupErr, mDeferred, mCancelled>>
    /\ UNCHANGED kvars
    /\ UNCHANGED notM

\* if *transcoder { setupTranscoder ... }
SetupAlways(f) == TRUE
SetupWanted(f) == f.transcoder

\* client, err := eth.NewClient(...); n.Eth = client
MNewClient ==
    /\ Alive /\ mpc = "client"
    /\ StepOrReturn("client", IF SetupWanted(mFlags) THEN "setup" ELSE "media")
    /\ UNCHANGED <<mFlags, mNode, mSub, mSetupErr, mDeferred, mCancelled>>
    /\ UNCHANGED kvars
    /\ UNCHANGED notM

\* What setupTranscoder returns as its error, given whether the query of the
\* active state and the subscription failed: always nil (return sub, nil).
SetupError(activeFailed, subFailed) == "nil"

\* logsSub, err := setupTranscoder(n, acct): the query of the active state,
\* the start of the reward loop, the subscription and the start of the
\* listener goroutine; every error in it is only logged
MSetupTranscoder ==
    /\ Alive /\ mpc = "setup"
    /\ \E activeFailed \in BOOLEAN, subFailed \in BOOLEAN :
         /\ mFailed' = mFailed \cup (IF activeFailed THEN {"isActive"} ELSE {})
                               \cup (IF subFailed THEN {"subscribe"} ELSE {})
         /\ mSub' = IF subFailed THEN "nil" ELSE "live"
         /\ mSetupErr' = SetupError(activeFailed, subFailed)
    /\ mDone' = mDone \o <<"isActive", "rmStart", "subscribe", "listener">>
    /\ mpc' = "defer"
    /\ UNCHANGED <<mFlags, mNode, mDeferred, mCancelled, mExit>>
    /\ UNCHANGED kvars
    /\ UNCHANGED notM

\* if err != nil { log }; defer logsSub.Unsubscribe(): on a nil logsSub the
\* method value cannot be taken and the statement panics, or the deferred
\* call panics when main returns
MDefer ==
    /\ Alive /\ mpc = "defer"
    /\ \/ /\ mDeferred' = Append(mDeferred, mSub)
          /\ mpc' = "media"
          /\ mExit' = mExit
       \/ /\ mSub = "nil"
          /\ mDeferred' = mDeferred
          /\ mpc' = "exit"
          /\ mExit' = "panic"
    /\ UNCHANGED <<mFlags, mDone, mFailed, mNode, mSub, mSetupErr, mCancelled>>
    /\ UNCHANGED kvars
    /\ UNCHANGED notM

\* s := NewLivepeerMediaServer(..., n); go func() { ec <- s.StartMediaServer(msCtx) }()
MStartMedia ==
    /\ Alive /\ mpc = "media"
    /\ mDone' = Append(mDone, "media")
    /\ mpc' = "serving"
    /\ UNCHANGED <<mFlags, mFailed, mNode, mSub, mSetupErr, mDeferred, mCancelled,
                   mExit>>
    /\ UNCHANGED kvars
    /\ UNCHANGED notM

\* case err := <-ec: the media server has returned; cancel()
MMediaReturns ==
    /\ Alive /\ mpc = "serving"
    /\ mCancelled' = TRUE
    /\ mpc' = "cancelled"
    /\ UNCHANGED <<mFlags, mDone, mFailed, mNode, mSub, mSetupErr, mDeferred,
                   mExit>>
    /\ UNCHANGED kvars
    /\ UNCHANGED notM

\* return: the deferred Unsubscribe runs, on a nil subscription it panics
MReturn ==
    /\ Alive /\ mpc = "cancelled"
    /\ mpc' = "exit"
    /\ mExit' = IF \E i \in DOMAIN mDeferred : mDeferred[i] = "nil"
                THEN "panic" ELSE "returned"
    /\ mSub' = IF mDeferred # <<>> /\ mSub = "live" THEN "unsubscribed" ELSE mSub
    /\ mDeferred' = <<>>
    /\ UNCHANGED <<mFlags, mDone, mFailed, mNode, mSetupErr, mCancelled>>
    /\ UNCHANGED kvars
    /\ UNCHANGED notM

\* The goroutines setupTranscoder started run for as long as the process
\* does; the subscription sends the first job event while it is live.
MJobEvent ==
    /\ Alive /\ mSub = "live"
    /\ pending = <<>> /\ handled = <<>>
    /\ JobEvent

MRecv ==
    /\ Alive /\ Did("listener")
    /\ Recv

MTickFire ==
    /\ Alive /\ Did("rmStart")
    /\ RMTickFire

MStartEval ==
    /\ Alive /\ Did("rmStart")
    /\ rmEvals = 0
    /\ RMStartEval

MAdvance ==
    /\ Alive /\ Did("rmStart")
    /\ rmNow < RewardInterval
    /\ RMAdvance

----------------------------------------------------------------------------
(* Properties of main *)

\* The steps of main after the check of the flags and of the data directory
LaterSteps ==
    {"keys", "newNode", "newNetwork", "lpNode", "bootstrap", "account", "dial",
     "client", "isActive", "rmStart", "subscribe", "listener", "media"}

\* The steps whose failure C16 names
FailableSteps ==
    {"keys", "newNode", "newNetwork", "lpNode", "bootstrap", "account", "dial",
     "client"}

\* C14: with a missing network, HTTP or RTMP port, or an unreadable data
\* directory, main performs no later startup step: no key loading, no node
\* creation, no chain setup, no media server.
C14_StartupErrorsFatal ==
    (MissingPort(mFlags) \/ mFlags.dir = "unreadable") =>
        \A step \in LaterSteps : ~Did(step)

\* C15: once main has cancelled the node's context, the listener handles no
\* further event and the reward loop starts no further evaluation.
C15_NoWorkAfterCancel ==
    [][mCancelled => (handled' = handled /\ rmEvals' = rmEvals)]_vars

\* C16: when a startup step before the media server fails, it is the last
\* step main performs: main returns, does not use the node further and does
\* not start the media server.
C16_FailedStepReturns ==
    \A step \in FailableSteps :
        step \in mFailed =>
            /\ mDone[Len(mDone)] = step
            /\ mExit = "returned"

\* C17: when setupTranscoder returns a nil error the subscription it returns
\* is live, every deferred Unsubscribe is on a valid subscription, and a
\* failed subscription or a failed query of the active state is returned to
\* main as an error.
C17_NilErrorMeansLiveSubscription ==
    /\ mSetupErr = "nil" => mSub \in {"live", "unsubscribed"}
    /\ \A i \in DOMAIN mDeferred : mDeferred[i] = "live"
    /\ ("subscribe" \in mFailed \/ "isActive" \in mFailed) =>
          mSetupErr \notin {"none", "nil"}

\* C18: the reward loop and the job-event subscription are started only when
\* a chain endpoint is configured and the transcoder flag is set, both in the
\* one call of setupTranscoder and each exactly once, the subscription being
\* live unless its call failed; without a chain endpoint neither is started,
\* whatever the transcoder flag, and main goes on to start the media server.
C18_RewardAndSubscriptionOnce ==
    /\ Count("rmStart") <= 1 /\ Count("subscribe") <= 1
    /\ (Did("rmStart") \/ Did("subscribe") \/ mSub # "none") =>
          (mFlags.gethipc # "" /\ mFlags.transcoder)
    /\ Did("rmStart") <=> Did("subscribe")
    /\ (mFlags.gethipc # "" /\ mFlags.transcoder /\ Did("client")
        /\ "client" \notin mFailed /\ mpc # "setup") =>
          /\ Count("rmStart") = 1 /\ Count("subscribe") = 1
          /\ "subscribe" \notin mFailed => mSub \in {"live", "unsubscribed"}
    /\ mFlags.gethipc = "" =>
          /\ rmEvals = 0 /\ handled = <<>> /\ pending = <<>>
          /\ (Did("bootstrap") /\ "bootstrap" \notin mFailed /\ mExit # "panic"
              /\ mpc \notin {"chain", "media"}) => Count("media") = 1

C18_Witness ==
    /\ mFlags.gethipc # "" /\ mFlags.transcoder
    /\ Count("rmStart") = 1 /\ Count("subscribe") = 1
    /\ mSub = "live"
    /\ mpc = "serving"
    /\ rmEvals = 1 /\ Len(handled) = 1

----------------------------------------------------------------------------
Init == LInit /\ CMInit /\ RMInit /\ KInit /\ MInit

\* The job-event listener
Next ==
    \/ JobEvent
    \/ Recv
    \/ GetTx
    \/ ParseTx
    \/ JobInfo
    \/ Lookup
    \/ CallTranscode
    \/ TranscodeReturn
    \/ Notify

Spec == Init /\ [][Next]_vars

\* One job's Claim Manager
NextCM ==
    \/ CMReceipt
    \/ CMInterval
    \/ CMJobEnded
    \/ CMClose
    \/ CMSubmitResult

SpecCM == Init /\ [][NextCM]_vars

\* The Reward Manager
NextRM ==
    \/ RMTickFire
    \/ RMStartEval
    \/ RMEndEval
    \/ RMAdvance

SpecRM == Init /\ [][NextRM]_vars

\* getLPKeys, called again and again on one data directory
InitKeys == LInit /\ CMInit /\ RMInit /\ KInitAny /\ MInit

NextKeys ==
    \/ KCall

SpecKeys == InitKeys /\ [][NextKeys]_vars

\* main with the goroutines it starts, for every setting of the flags
InitMain ==
    /\ LInit /\ CMInit /\ RMInit
    /\ MInitAny
    /\ kFile \in KeyFilesIn(mFlags.dir)
    /\ kLog = <<>>

NextMain ==
    \/ MCheckFlags
    \/ MDataDir
    \/ MGetKeys
    \/ MNewNode
    \/ MNewNetwork
    \/ MNewLivepeerNode
    \/ MBootstrap
    \/ MChainMode
    \/ MAccount
    \/ MDial
    \/ MNewClient
    \/ MSetupTranscoder
    \/ MDefer
    \/ MStartMedia
    \/ MMediaReturns
    \/ MReturn
    \/ MJobEvent
    \/ MRecv
    \/ MTickFire
    \/ MStartEval
    \/ MAdvance

SpecMain == InitMain /\ [][NextMain]_vars

====
